---- MODULE Spec2Model ----
(***************************************************************************)
(* Model of the notebook LineFitting.ipynb: a Jupyter session whose code   *)
(* cells fit y = m*x + c to the four columns of LineData.csv with          *)
(* scipy.stats.linregress (cell "2"), scipy.optimize.curve_fit (cells "3"  *)
(* and "4"), build a confidence envelope (cell "4.2") and fit with         *)
(* scipy.odr (cell "5").  The session state is the kernel's global         *)
(* namespace; a code cell is one operation, made of its statements in      *)
(* order, and stops at the first statement that raises.                    *)
(*                                                                         *)
(* Numbers.  A float is modelled as an extended rational <<n, d>>:         *)
(* d > 0 is the rational n/d in lowest terms, <<1,0>> is +inf, <<-1,0>>    *)
(* is -inf and <<0,0>> is nan, with numpy's rules for them (x/0 is inf     *)
(* or nan, never an exception).  Rounding of finite results is not         *)
(* modelled, except for np.sqrt, which rounds down to a multiple of        *)
(* 1/SqrtDen.                                                              *)
(*                                                                         *)
(* Evaluation.  Python evaluates an argument once, before the call.  The   *)
(* operators below do the same: Pick({ body : a \in {A} }) evaluates the   *)
(* argument A once and binds its value to a in the body.                   *)
(***************************************************************************)
EXTENDS Integers, Sequences, FiniteSets, TLC

(***************************************************************************)
(* Bounds of the model.                                                    *)
(***************************************************************************)
\* np.sqrt is computed to a resolution of 1/SqrtDen
SqrtDen == 8
\* the drawn data sets have x in MinX..MaxX and y in 0..MaxY
MaxX == 1
MaxY == 1
\* uniform y uncertainties of the drawn data sets: 1..MaxSigma
MaxSigma == 2
\* sigma multipliers tried in the envelope cell: 0..MaxNstd
MaxNstd == 2
\* iteration cap of the ODR solver (scipy's default is 50; the model's
\* solver moves in steps of 1/ODRGrid, so the cap is scaled with it)
Maxit == 2
ODRGrid == 2
\* the cells executed again after Run All are at most MaxRerun
MaxRerun == 2

(***************************************************************************)
(* Extended rational arithmetic (numpy float64 semantics without rounding) *)
(***************************************************************************)
Pick(S) == CHOOSE v \in S : TRUE

Abs(N) == Pick({ IF n < 0 THEN -n ELSE n : n \in {N} })

Sgn(N) == Pick({ IF n > 0 THEN 1 ELSE IF n < 0 THEN -1 ELSE 0 : n \in {N} })

RECURSIVE GCD(_, _)
GCD(A, B) == Pick({ IF b = 0 THEN a ELSE GCD(b, a % b) : a \in {A}, b \in {B} })

\* n/d in lowest terms with a positive denominator; n/0 is an infinity or nan
Norm(N, D) ==
  Pick({ IF d = 0 THEN <<Sgn(n), 0>>
         ELSE Pick({ <<(sg * n) \div g, (sg * d) \div g>> :
                       g \in {GCD(Abs(n), Abs(d))}, sg \in {IF d < 0 THEN -1 ELSE 1} }) :
         n \in {N}, d \in {D} })

Q(n) == <<n, 1>>

Zero == <<0, 1>>

One == <<1, 1>>

NaN == <<0, 0>>

Inf == <<1, 0>>

IsFinite(a) == a[2] # 0

IsNaN(a) == a = NaN

QNeg(A) == Pick({ <<-a[1], a[2]>> : a \in {A} })

QAdd(A, B) ==
  Pick({ IF IsFinite(a) /\ IsFinite(b)
         THEN Pick({ Norm(a[1] * (b[2] \div g) + b[1] * (a[2] \div g), (a[2] \div g) * b[2]) :
                     g \in {GCD(a[2], b[2])} })
         ELSE IF IsNaN(a) \/ IsNaN(b) THEN NaN
         ELSE IF IsFinite(a) THEN b
         ELSE IF IsFinite(b) THEN a
         ELSE IF a = b THEN a ELSE NaN :
         a \in {A}, b \in {B} })

QSub(a, b) == QAdd(a, QNeg(b))

QMul(A, B) ==
  Pick({ IF IsFinite(a) /\ IsFinite(b)
         THEN Pick({ Norm((a[1] \div g) * (b[1] \div h), (a[2] \div h) * (b[2] \div g)) :
                     g \in {GCD(Abs(a[1]), b[2])}, h \in {GCD(Abs(b[1]), a[2])} })
         ELSE <<Sgn(a[1]) * Sgn(b[1]), 0>> :
         a \in {A}, b \in {B} })

QDiv(A, B) ==
  Pick({ IF IsNaN(a) \/ IsNaN(b) THEN NaN
         ELSE IF IsFinite(a) /\ IsFinite(b) THEN
                IF b[1] = 0 THEN <<Sgn(a[1]), 0>>
                ELSE Pick({ Norm((a[1] \div g) * (b[2] \div h), (a[2] \div h) * (b[1] \div g)) :
                            g \in {GCD(Abs(a[1]), Abs(b[1]))}, h \in {GCD(a[2], b[2])} })
         ELSE IF IsFinite(a) THEN Zero
         ELSE IF IsFinite(b) THEN <<a[1] * (IF b[1] < 0 THEN -1 ELSE 1), 0>>
         ELSE NaN :
         a \in {A}, b \in {B} })

\* a < b, a <= b; False as soon as one side is nan
QLt(A, B) ==
  \E a \in {A}, b \in {B} :
    IF IsNaN(a) \/ IsNaN(b) THEN FALSE
    ELSE IF IsFinite(a) /\ IsFinite(b)
         THEN \E g \in {GCD(a[2], b[2])} : a[1] * (b[2] \div g) < b[1] * (a[2] \div g)
    ELSE IF IsFinite(a) THEN b[1] > 0
    ELSE IF IsFinite(b) THEN a[1] < 0
    ELSE a[1] < b[1]

QLe(A, B) == \E a \in {A}, b \in {B} : ~IsNaN(a) /\ ~IsNaN(b) /\ (a = b \/ QLt(a, b))

QAbs(A) == Pick({ <<Abs(a[1]), a[2]>> : a \in {A} })

\* the largest k with k*k <= n, by bisection on lo..hi
RECURSIVE ISqrtIn(_, _, _)
ISqrtIn(N, LO, HI) ==
  Pick({ IF lo = hi THEN lo
         ELSE Pick({ IF mid * mid <= n THEN ISqrtIn(n, mid, hi)
                     ELSE ISqrtIn(n, lo, mid - 1) :
                     mid \in {(lo + hi + 1) \div 2} }) :
         n \in {N}, lo \in {LO}, hi \in {HI} })

ISqrt(N) == Pick({ ISqrtIn(n, 0, IF n < 46340 THEN n ELSE 46340) : n \in {N} })

\* np.sqrt: nan for a negative argument, rounded down to 1/SqrtDen
QSqrt(A) ==
  Pick({ IF IsNaN(a) THEN NaN
         ELSE IF ~IsFinite(a) THEN (IF a[1] > 0 THEN Inf ELSE NaN)
         ELSE IF a[1] < 0 THEN NaN
         ELSE Norm(ISqrt((a[1] \div a[2]) * SqrtDen * SqrtDen
                         + ((a[1] % a[2]) * SqrtDen * SqrtDen) \div a[2]), SqrtDen) :
         a \in {A} })

(***************************************************************************)
(* Arrays (pandas Series / numpy arrays) as sequences of numbers           *)
(***************************************************************************)
\* the array of the first n values of f
RECURSIVE Tup(_, _)
Tup(f, N) == Pick({ IF n = 0 THEN <<>> ELSE Append(Tup(f, n - 1), f[n]) : n \in {N} })

RECURSIVE Sum(_)
Sum(V) == Pick({ IF v = <<>> THEN Zero ELSE QAdd(Head(v), Sum(Tail(v))) : v \in {V} })

Mean(V) == Pick({ QDiv(Sum(v), Q(Len(v))) : v \in {V} })

\* element-wise array arithmetic and scalar broadcasting
VAdd(U, V) ==
  Pick({ Tup([i \in 1..Len(u) |-> QAdd(u[i], v[i])], Len(u)) : u \in {U}, v \in {V} })

VSub(U, V) ==
  Pick({ Tup([i \in 1..Len(u) |-> QSub(u[i], v[i])], Len(u)) : u \in {U}, v \in {V} })

VMul(U, V) ==
  Pick({ Tup([i \in 1..Len(u) |-> QMul(u[i], v[i])], Len(u)) : u \in {U}, v \in {V} })

VScale(K, V) ==
  Pick({ Tup([i \in 1..Len(v) |-> QMul(k, v[i])], Len(v)) : k \in {K}, v \in {V} })

VShift(V, K) ==
  Pick({ Tup([i \in 1..Len(v) |-> QAdd(v[i], k)], Len(v)) : k \in {K}, v \in {V} })

VSqrt(V) == Pick({ Tup([i \in 1..Len(v) |-> QSqrt(v[i])], Len(v)) : v \in {V} })

\* np.diag of a 2x2 matrix
Diag(MM) == Pick({ <<M[1][1], M[2][2]>> : M \in {MM} })

AllFinite(v) == \A i \in 1..Len(v) : IsFinite(v[i])

(***************************************************************************)
(* The straight-line model functions                                       *)
(***************************************************************************)
\* def StrtLineModel(x, m, c): y_lin = m*x + c
StrtLineOrigin(x, m, c) == VScale(m, x)

StrtLineModel(x, m, c) == VShift(VScale(m, x), c)

\* def StrtLineModelOdr(p, x): m, c = p; y_lin = m * x + c
StrtLineModelOdr(P, x) == Pick({ VShift(VScale(p[1], x), p[2]) : p \in {P} })

(***************************************************************************)
(* scipy.stats.linregress(x, y), as called in cells 6 and 20.              *)
(* With every x equal ssxm is 0: a scipy that validates x raises           *)
(* ValueError, an older one divides (numpy: 0/0 = nan).  The p-value is    *)
(* never used by the notebook and is left out.                             *)
(***************************************************************************)
Uncentered(V) == V

Centered(V) == Pick({ VShift(v, QNeg(Mean(v))) : v \in {V} })

\* entries of np.cov(x, y, bias=1)
CovB(U, V) == Pick({ Mean(VMul(Centered(u), Centered(v))) : u \in {U}, v \in {V} })

Clip(R) ==
  Pick({ IF QLt(One, r) THEN One ELSE IF QLt(r, QNeg(One)) THEN QNeg(One) ELSE r :
         r \in {R} })

\* r = r_num / r_den, 0.0 when r_den is 0
RValue(ssxm, ssxym, ssym) ==
  Pick({ IF r_den = Zero THEN Zero ELSE Clip(QDiv(ssxym, r_den)) :
         r_den \in {QSqrt(QMul(ssxm, ssym))} })

\* sterrest = sqrt((1 - r**2) * ssym / ssxm / df), 0.0 for two points
StdErr(n, R, ssxm, ssym) ==
  IF n = 2 THEN Zero
  ELSE QSqrt(QDiv(QDiv(QMul(QSub(One, Pick({ QMul(r, r) : r \in {R} })), ssym), ssxm),
                  Q(n - 2)))

linregress(X, Y, validates) ==
  Pick({ Pick({ IF validates /\ ssxm = Zero
                THEN [raises |-> "ValueError", slope |-> NaN, intercept |-> NaN,
                      rvalue |-> NaN, stderr |-> NaN]
                ELSE Pick({ [raises |-> "none", slope |-> slope,
                             intercept |-> QSub(Mean(y), QMul(slope, Mean(x))),
                             rvalue |-> r, stderr |-> StdErr(Len(x), r, ssxm, ssym)] :
                            slope \in {QDiv(ssxym, ssxm)},
                            r \in {RValue(ssxm, ssxym, ssym)} }) :
                ssxm \in {CovB(x, x)}, ssxym \in {CovB(x, y)}, ssym \in {CovB(y, y)} }) :
         x \in {X}, y \in {Y} })

(***************************************************************************)
(* scipy.optimize.curve_fit(f, x, y [, sigma, absolute_sigma]) with the    *)
(* default p0 = (1, 1) and method 'lm'.  The residual t_i*(f(x_i,p)-y_i),  *)
(* t = 1/sigma, is linear in p, so the Levenberg-Marquardt solver          *)
(* reaches the minimiser with its first (Gauss-Newton) step.  A singular   *)
(* Jacobian (every x equal) gives MINPACK's pivoted basic solution and no  *)
(* covariance, which curve_fit reports as a matrix of inf.                 *)
(***************************************************************************)
Ones(n) == Tup([i \in 1..n |-> One], n)

\* transform = 1.0 / sigma  (inf where sigma is 0)
Transform(SIGMA) ==
  Pick({ Tup([i \in 1..Len(sigma) |-> QDiv(One, sigma[i])], Len(sigma)) :
         sigma \in {SIGMA} })

InfMatrix == <<<<Inf, Inf>>, <<Inf, Inf>>>>

\* the inverse of the symmetric matrix ((a, b), (b, d))
Inv2(A, B, D) ==
  Pick({ Pick({ <<<<QDiv(d, det), QDiv(QNeg(b), det)>>,
                  <<QDiv(QNeg(b), det), QDiv(a, det)>>>> :
                det \in {QSub(QMul(a, d), QMul(b, b))} }) :
         a \in {A}, b \in {B}, d \in {D} })

\* the Gauss-Newton step from p0 for the normal matrix ((a, b), (b, d)) and the
\* gradient (g1, g2); singular: only the column of larger norm is moved
GaussNewton(p0, A, B, D, G1, G2) ==
  Pick({ IF QSub(QMul(a, d), QMul(b, b)) = Zero
         THEN IF QLe(d, a)
              THEN [popt |-> <<QSub(p0[1], QDiv(g1, a)), p0[2]>>, singular |-> TRUE,
                    cov_x |-> InfMatrix]
              ELSE [popt |-> <<p0[1], QSub(p0[2], QDiv(g2, d))>>, singular |-> TRUE,
                    cov_x |-> InfMatrix]
         ELSE Pick({ [popt |-> <<QSub(p0[1], QAdd(QMul(cov[1][1], g1), QMul(cov[1][2], g2))),
                                 QSub(p0[2], QAdd(QMul(cov[2][1], g1), QMul(cov[2][2], g2)))>>,
                      singular |-> FALSE, cov_x |-> cov] :
                     cov \in {Inv2(a, b, d)} }) :
         a \in {A}, b \in {B}, d \in {D}, g1 \in {G1}, g2 \in {G2} })

\* the solver: from p0 = (1, 1), minimise sum((t*(f(x, *p) - y))**2); returns
\* popt and cov_x = inv(J^T J)
leastsq(X, Y, T) ==
  Pick({ Pick({ GaussNewton(<<One, One>>, Sum(VMul(w, VMul(x, x))), Sum(VMul(w, x)), Sum(w),
                            Sum(VMul(w, VMul(x, res0))), Sum(VMul(w, res0))) :
                w \in {VMul(t, t)}, res0 \in {VSub(StrtLineModel(x, One, One), y)} }) :
         x \in {X}, y \in {Y}, t \in {T} })

MScale(K, MM) == Pick({ <<VScale(k, M[1]), VScale(k, M[2])>> : k \in {K}, M \in {MM} })

\* cost = sum(fvec**2) at popt
Cost(x, y, t, POPT) ==
  Pick({ Sum(VMul(fvec, fvec)) :
         fvec \in {Pick({ VMul(t, VSub(StrtLineModel(x, popt[1], popt[2]), y)) :
                          popt \in {POPT} })} })

curve_fit(X, Y, SIGMA, absolute_sigma) ==
  Pick({ Pick({ Pick({ [popt |-> sol.popt,
                        pcov |-> IF sol.singular THEN InfMatrix
                                 ELSE IF absolute_sigma THEN sol.cov_x
                                 ELSE IF Len(y) > 2
                                      THEN MScale(QDiv(Cost(x, y, t, sol.popt), Q(Len(y) - 2)),
                                                  sol.cov_x)
                                      ELSE InfMatrix] :
                       sol \in {leastsq(x, y, t)} }) :
                t \in {IF sigma = <<>> THEN Ones(Len(x)) ELSE Transform(sigma)} }) :
         x \in {X}, y \in {Y}, sigma \in {SIGMA} })

\* a zero in sigma makes the transform, and every residual, non-finite
InfiniteWeight(sigma) == \E i \in 1..Len(sigma) : ~IsFinite(QDiv(One, sigma[i]))

(***************************************************************************)
(* scipy.odr: RealData(x, y, sx, sy), ODR(rdata, model, beta0).run().      *)
(* For the straight line the inner minimisation over the latent x has a    *)
(* closed form; the outer search is iterative.  It is modelled as a        *)
(* descent that moves one parameter by 1/ODRGrid per iteration while the   *)
(* objective decreases, stopped after Maxit iterations with info = 4       *)
(* ("iteration limit reached"); info = 1 is convergence.                   *)
(***************************************************************************)
\* RealData: weights wd = 1/sx**2, we = 1/sy**2
SdToWt(SD) ==
  Pick({ Tup([i \in 1..Len(sd) |-> QDiv(One, QMul(sd[i], sd[i]))], Len(sd)) : sd \in {SD} })

\* the variance of the residual of each point along the line of slope m
EffVar(M, wd, we) ==
  Pick({ Tup([i \in 1..Len(wd) |-> QAdd(QDiv(One, we[i]), QDiv(mm, wd[i]))], Len(wd)) :
         mm \in {Pick({ QMul(m, m) : m \in {M} })} })

ODRObjective(BETA, x, y, wd, we) ==
  Pick({ Pick({ Sum(Tup([i \in 1..Len(x) |-> QDiv(QMul(res[i], res[i]), var[i])], Len(x))) :
                res \in {VSub(y, StrtLineModelOdr(beta, x))},
                var \in {EffVar(beta[1], wd, we)} }) :
         beta \in {BETA} })

ODRStep == Norm(1, ODRGrid)

ODRNeighbours(BETA) ==
  Pick({ << <<QAdd(beta[1], ODRStep), beta[2]>>, <<QSub(beta[1], ODRStep), beta[2]>>,
            <<beta[1], QAdd(beta[2], ODRStep)>>, <<beta[1], QSub(beta[2], ODRStep)>> >> :
         beta \in {BETA} })

\* the candidate of lowest objective below bestVal, or best
RECURSIVE ODRBest(_, _, _, _, _, _, _)
ODRBest(CANDS, BEST, BESTVAL, x, y, wd, we) ==
  Pick({ IF cands = <<>> THEN best
         ELSE Pick({ IF QLt(val, bestVal)
                     THEN ODRBest(Tail(cands), Head(cands), val, x, y, wd, we)
                     ELSE ODRBest(Tail(cands), best, bestVal, x, y, wd, we) :
                     val \in {ODRObjective(Head(cands), x, y, wd, we)} }) :
         cands \in {CANDS}, best \in {BEST}, bestVal \in {BESTVAL} })

RECURSIVE ODRIterate(_, _, _, _, _, _)
ODRIterate(BETA, NITER, x, y, wd, we) ==
  Pick({ Pick({ IF best = beta THEN [beta |-> beta, info |-> 1, niter |-> niter]
                ELSE IF niter >= Maxit THEN [beta |-> beta, info |-> 4, niter |-> niter]
                ELSE ODRIterate(best, niter + 1, x, y, wd, we) :
                best \in {ODRBest(ODRNeighbours(beta), beta,
                                  ODRObjective(beta, x, y, wd, we), x, y, wd, we)} }) :
         beta \in {BETA}, niter \in {NITER} })

\* cov_beta: the inverse of the Gauss-Newton curvature of the objective at beta
ODRCov(BETA, x, wd, we) ==
  Pick({ Inv2(Sum(VMul(w, VMul(x, x))), Sum(VMul(w, x)), Sum(w)) :
         w \in {Pick({ Tup([i \in 1..Len(x) |-> QDiv(One, var[i])], Len(x)) :
                       var \in {EffVar(BETA[1], wd, we)} })} })

\* odr.run(): the Output object
ODRRun(X, Y, SX, SY, BETA0) ==
  Pick({ Pick({ Pick({ [beta |-> fin.beta, cov_beta |-> ODRCov(fin.beta, x, wd, we),
                        info |-> fin.info, niter |-> fin.niter] :
                       fin \in {ODRIterate(beta0, 0, x, y, wd, we)} }) :
                wd \in {SdToWt(sx)}, we \in {SdToWt(sy)} }) :
         x \in {X}, y \in {Y}, sx \in {SX}, sy \in {SY}, beta0 \in {BETA0} })

(***************************************************************************)
(* The session                                                             *)
(***************************************************************************)
VARIABLES
  csv,       \* LineData.csv: the columns xdat, ydat, xerr, yerr
  build,     \* the installed scipy: what it does where the notebook checks nothing
  ns,        \* the kernel's global namespace: the value bound to each name
  defined,   \* the names bound so far
  err,       \* the exception that ended the last executed cell, or "none"
  lastCell,  \* the cell executed last (0: none yet)
  runAll,    \* TRUE: the session is one "Restart & Run All"
  queue,     \* the cells still queued by Run All
  fitBy,     \* history: the estimator cell that ran to its end last (0: none yet)
  prev,      \* history: the envelope that the envelope cell is rebuilding, or Nil
  odrFirst,  \* history: <<popt, perr>> of the first run of cell 20 to its end, or Nil
  thr        \* the two concurrent invocations of the concurrency specification

vars == <<csv, build, ns, defined, err, lastCell, runAll, queue, fitBy, prev, odrFirst, thr>>

Nil == <<>>

BlankNs ==
  [LineData |-> Nil, x |-> Nil, y |-> Nil, yerror |-> Nil, xerror |-> Nil,
   m |-> Nil, c |-> Nil, r |-> Nil, stderr |-> Nil,
   popt |-> Nil, pcov |-> Nil, perr |-> Nil,
   m_fit |-> Nil, c_fit |-> Nil, m_err |-> Nil, c_err |-> Nil,
   nstd |-> Nil, popt_upper |-> Nil, popt_lower |-> Nil,
   y_fit |-> Nil, fit_upper |-> Nil, fit_lower |-> Nil,
   odr |-> "", rdata |-> Nil, init_guess |-> Nil, result_outputs |-> Nil]

\* a session as the statements see it
Blank == [ns |-> BlankNs, defined |-> {}, err |-> "none"]

Raise(s, e) == [s EXCEPT !.err = e]

\* the names a statement reads are bound
Has(s, names) == names \subseteq s.defined

\* import ... / def ...: bind names whose value the model does not need
Import(s, names) ==
  IF s.err # "none" THEN s ELSE [s EXCEPT !.defined = @ \cup names]

\* a statement that only reads names (print, plot)
Use(s, names) ==
  IF s.err # "none" THEN s
  ELSE IF ~Has(s, names) THEN Raise(s, "NameError")
  ELSE s

\* name = value
Bind(s, name, value) ==
  [s EXCEPT !.ns = [@ EXCEPT ![name] = value], !.defined = @ \cup {name}]

\* a column of integers parsed as floats
Floats(col) == Tup([i \in 1..Len(col) |-> Q(col[i])], Len(col))

\* pd.read_csv: the four columns as float Series
ReadCsv(file) ==
  [xdat |-> Floats(file.xdat), ydat |-> Floats(file.ydat),
   xerr |-> Floats(file.xerr), yerr |-> Floats(file.yerr)]

(***************************************************************************)
(* Cell 2: imports                                                         *)
(***************************************************************************)
Cell2Stmt(i, s) == Import(s, {"np", "pd", "plt"})

(***************************************************************************)
(* Cell 4: read the data                                                   *)
(***************************************************************************)
Cell4Stmt(i, s) ==
  IF s.err # "none" THEN s
  ELSE CASE i = 1 -> IF ~Has(s, {"pd"}) THEN Raise(s, "NameError")
                     ELSE Bind(s, "LineData", ReadCsv(csv))
         [] i = 2 -> Use(s, {"LineData"})
         [] i = 3 -> IF ~Has(s, {"LineData"}) THEN Raise(s, "NameError")
                     ELSE Bind(s, "x", s.ns.LineData.xdat)
         [] i = 4 -> IF ~Has(s, {"LineData"}) THEN Raise(s, "NameError")
                     ELSE Bind(s, "y", s.ns.LineData.ydat)
         [] i = 5 -> Use(s, {"plt", "x", "y"})

(***************************************************************************)
(* Cell 6: linregress                                                      *)
(***************************************************************************)
Cell6Stmt(i, s) ==
  IF s.err # "none" THEN s
  ELSE CASE i = 1 -> Import(s, {"linregress"})
         [] i = 2 -> IF ~Has(s, {"linregress", "x", "y"}) THEN Raise(s, "NameError")
                     ELSE Pick({ IF res.raises # "none" THEN Raise(s, res.raises)
                                 ELSE Bind(Bind(Bind(Bind(s, "m", res.slope),
                                        "c", res.intercept), "r", res.rvalue),
                                        "stderr", res.stderr) :
                                 res \in {linregress(s.ns.x, s.ns.y,
                                                     build.linregressValidates)} })
         [] i = 3 -> Use(s, {"m", "stderr", "c", "r"})
         \* xstart, xend, xlin, ylin: values for the plot only
         [] i = 4 -> Use(s, {"x", "np", "m", "c"})
         [] i = 5 -> Use(s, {"plt", "x", "y"})

(***************************************************************************)
(* popt, pcov = curve_fit(...): a zero in sigma gives the solver           *)
(* non-finite residuals; it either gives up (RuntimeError, "Optimal        *)
(* parameters not found") or returns what it computed.                     *)
(***************************************************************************)
FitStmtRelative(s, sigma, absolute_sigma) ==
  Pick({ Bind(Bind(s, "popt", res.popt), "pcov", res.pcov) :
         res \in {curve_fit(s.ns.x, s.ns.y, sigma, FALSE)} })

FitStmt(s, sigma, absolute_sigma) ==
  IF sigma # Nil /\ InfiniteWeight(sigma) /\ build.leastsqGivesUp
  THEN Raise(s, "RuntimeError")
  ELSE Pick({ Bind(Bind(s, "popt", res.popt), "pcov", res.pcov) :
              res \in {curve_fit(s.ns.x, s.ns.y, sigma, absolute_sigma)} })

\* m_fit = popt[0] ... c_err = perr[1]
NamedStmt(i, s) ==
  CASE i = 0 -> IF ~Has(s, {"popt"}) THEN Raise(s, "NameError")
                ELSE Bind(s, "m_fit", s.ns.popt[1])
    [] i = 1 -> IF ~Has(s, {"popt"}) THEN Raise(s, "NameError")
                ELSE Bind(s, "c_fit", s.ns.popt[2])
    [] i = 2 -> IF ~Has(s, {"perr"}) THEN Raise(s, "NameError")
                ELSE Bind(s, "m_err", s.ns.perr[1])
    [] i = 3 -> IF ~Has(s, {"perr"}) THEN Raise(s, "NameError")
                ELSE Bind(s, "c_err", s.ns.perr[2])

PerrStmtKeep(s) ==
  IF ~Has(s, {"np", "pcov"}) THEN Raise(s, "NameError")
  ELSE IF Has(s, {"perr"}) THEN s
  ELSE Bind(s, "perr", VSqrt(Diag(s.ns.pcov)))

\* perr = np.sqrt(np.diag(pcov))
PerrStmt(s) ==
  IF ~Has(s, {"np", "pcov"}) THEN Raise(s, "NameError")
  ELSE Bind(s, "perr", VSqrt(Diag(s.ns.pcov)))

(***************************************************************************)
(* Cell 8: curve_fit without uncertainties                                 *)
(***************************************************************************)
Cell8Stmt(i, s) ==
  IF s.err # "none" THEN s
  ELSE CASE i = 1 -> Import(s, {"curve_fit"})
         [] i = 2 -> Import(s, {"StrtLineModel"})
         [] i = 3 -> IF ~Has(s, {"curve_fit", "StrtLineModel", "x", "y"})
                     THEN Raise(s, "NameError")
                     ELSE FitStmt(s, Nil, FALSE)
         [] i = 4 -> PerrStmt(s)
         [] i \in 5..8 -> NamedStmt(i - 5, s)
         [] i = 9 -> Use(s, {"m_fit", "m_err", "c_fit", "c_err"})
         [] i = 10 -> Use(s, {"plt", "x", "y", "StrtLineModel", "m_fit", "c_fit"})

(***************************************************************************)
(* Cell 10: the y uncertainties                                            *)
(***************************************************************************)
Cell10Stmt(i, s) ==
  IF s.err # "none" THEN s
  ELSE CASE i = 1 -> IF ~Has(s, {"LineData"}) THEN Raise(s, "NameError")
                     ELSE Bind(s, "yerror", s.ns.LineData.yerr)
         [] i = 2 -> Use(s, {"plt", "x", "y", "yerror"})

(***************************************************************************)
(* Cell 12: curve_fit with sigma = yerror, absolute_sigma = True           *)
(***************************************************************************)
Cell12Stmt(i, s) ==
  IF s.err # "none" THEN s
  ELSE CASE i = 1 -> Import(s, {"StrtLineModel"})
         [] i = 2 -> IF ~Has(s, {"curve_fit", "StrtLineModel", "x", "y", "yerror"})
                     THEN Raise(s, "NameError")
                     ELSE FitStmt(s, s.ns.yerror, TRUE)
         [] i = 3 -> PerrStmt(s)
         [] i \in 4..7 -> NamedStmt(i - 4, s)
         [] i = 8 -> Use(s, {"m_fit", "m_err", "c_fit", "c_err"})

(***************************************************************************)
(* Cell 16: the confidence envelope                                        *)
(***************************************************************************)
PoptNarrow(popt, nstd, perr) == VSub(popt, VScale(QAdd(nstd, nstd), perr))

PoptLowerPlus(popt, nstd, perr) == VAdd(popt, VScale(nstd, perr))

PoptLowerUnit(popt, nstd, perr) == VSub(popt, perr)

\* popt_upper = popt + nstd*perr
PoptUpper(popt, nstd, perr) == VAdd(popt, VScale(nstd, perr))

\* popt_lower = popt - nstd*perr
PoptLower(popt, nstd, perr) == VSub(popt, VScale(nstd, perr))

Cell16Stmt(i, s, k) ==
  IF s.err # "none" THEN s
  ELSE CASE i = 1 -> Bind(s, "nstd", k)
         [] i = 2 -> IF ~Has(s, {"popt", "nstd", "perr"}) THEN Raise(s, "NameError")
                     ELSE Bind(s, "popt_upper", PoptUpper(s.ns.popt, s.ns.nstd, s.ns.perr))
         [] i = 3 -> IF ~Has(s, {"popt", "nstd", "perr"}) THEN Raise(s, "NameError")
                     ELSE Bind(s, "popt_lower", PoptLower(s.ns.popt, s.ns.nstd, s.ns.perr))
         [] i = 4 -> IF ~Has(s, {"StrtLineModel", "x", "popt"}) THEN Raise(s, "NameError")
                     ELSE Bind(s, "y_fit", StrtLineModel(s.ns.x, s.ns.popt[1], s.ns.popt[2]))
         [] i = 5 -> IF ~Has(s, {"StrtLineModel", "x", "popt_upper"})
                     THEN Raise(s, "NameError")
                     ELSE Bind(s, "fit_upper",
                               StrtLineModel(s.ns.x, s.ns.popt_upper[1], s.ns.popt_upper[2]))
         [] i = 6 -> IF ~Has(s, {"StrtLineModel", "x", "popt_lower"})
                     THEN Raise(s, "NameError")
                     ELSE Bind(s, "fit_lower",
                               StrtLineModel(s.ns.x, s.ns.popt_lower[1], s.ns.popt_lower[2]))
         [] i = 7 -> Use(s, {"plt"})
         [] i = 8 -> Use(s, {"plt", "x", "y_fit", "y", "yerror"})
         [] i = 9 -> Use(s, {"x", "fit_upper", "fit_lower", "plt"})

(***************************************************************************)
(* Cell 20: orthogonal distance regression                                 *)
(***************************************************************************)
ImportOdrOnce(s) == IF Has(s, {"odr"}) THEN s ELSE Bind(s, "odr", "module")

\* from scipy import odr: the name odr is bound to the module, whatever it was
ImportOdr(s) == Bind(s, "odr", "module")

Cell20Stmt(i, s) ==
  IF s.err # "none" THEN s
  ELSE CASE i = 1 -> ImportOdr(s)
         [] i = 2 -> Import(s, {"linregress"})
         [] i = 3 -> Import(s, {"StrtLineModelOdr"})
         [] i = 4 -> IF ~Has(s, {"LineData"}) THEN Raise(s, "NameError")
                     ELSE Bind(s, "xerror", s.ns.LineData.xerr)
         [] i = 5 -> IF ~Has(s, {"LineData"}) THEN Raise(s, "NameError")
                     ELSE Bind(s, "yerror", s.ns.LineData.yerr)
         [] i = 6 -> IF ~Has(s, {"odr", "StrtLineModelOdr"}) THEN Raise(s, "NameError")
                     ELSE IF s.ns.odr # "module" THEN Raise(s, "AttributeError")
                     ELSE Import(s, {"model"})
         [] i = 7 -> IF ~Has(s, {"odr", "x", "y", "xerror", "yerror"})
                     THEN Raise(s, "NameError")
                     ELSE IF s.ns.odr # "module" THEN Raise(s, "AttributeError")
                     ELSE Bind(s, "rdata", [x |-> s.ns.x, y |-> s.ns.y,
                                             sx |-> s.ns.xerror, sy |-> s.ns.yerror])
         [] i = 8 -> IF ~Has(s, {"linregress", "x", "y"}) THEN Raise(s, "NameError")
                     ELSE Pick({ IF res.raises # "none" THEN Raise(s, res.raises)
                                 ELSE Bind(s, "init_guess", <<res.slope, res.intercept>>) :
                                 res \in {linregress(s.ns.x, s.ns.y,
                                                     build.linregressValidates)} })
         [] i = 9 -> IF ~Has(s, {"odr", "rdata", "model", "init_guess"})
                     THEN Raise(s, "NameError")
                     ELSE IF s.ns.odr # "module" THEN Raise(s, "AttributeError")
                     ELSE Bind(s, "odr", "ODR")
         [] i = 10 -> IF ~Has(s, {"odr"}) THEN Raise(s, "NameError")
                      ELSE IF s.ns.odr # "ODR" THEN Raise(s, "AttributeError")
                      ELSE Bind(s, "result_outputs",
                                ODRRun(s.ns.rdata.x, s.ns.rdata.y, s.ns.rdata.sx,
                                       s.ns.rdata.sy, s.ns.init_guess))
         [] i = 11 -> IF ~Has(s, {"result_outputs"}) THEN Raise(s, "NameError")
                      ELSE Bind(s, "popt", s.ns.result_outputs.beta)
         [] i = 12 -> IF ~Has(s, {"np", "result_outputs"}) THEN Raise(s, "NameError")
                      ELSE Bind(s, "perr", VSqrt(Diag(s.ns.result_outputs.cov_beta)))
         [] i \in 13..16 -> NamedStmt(i - 13, s)
         [] i = 17 -> Use(s, {"m_fit", "m_err", "c_fit", "c_err"})
         [] i = 18 -> Use(s, {"plt", "x", "y", "yerror", "xerror", "StrtLineModelOdr",
                              "m_fit", "c_fit"})

(***************************************************************************)
(* Executing a cell: its statements in order                               *)
(***************************************************************************)
Cells == <<2, 4, 6, 8, 10, 12, 16, 20>>

NStmts(cell) ==
  CASE cell = 2 -> 1 [] cell = 4 -> 5 [] cell = 6 -> 5 [] cell = 8 -> 10
    [] cell = 10 -> 2 [] cell = 12 -> 8 [] cell = 16 -> 9 [] cell = 20 -> 18

Stmt(cell, i, s, k) ==
  CASE cell = 2 -> Cell2Stmt(i, s)
    [] cell = 4 -> Cell4Stmt(i, s)
    [] cell = 6 -> Cell6Stmt(i, s)
    [] cell = 8 -> Cell8Stmt(i, s)
    [] cell = 10 -> Cell10Stmt(i, s)
    [] cell = 12 -> Cell12Stmt(i, s)
    [] cell = 16 -> Cell16Stmt(i, s, k)
    [] cell = 20 -> Cell20Stmt(i, s)

RECURSIVE RunFrom(_, _, _, _)
RunFrom(cell, i, S, k) ==
  Pick({ IF i > NStmts(cell) \/ s.err # "none" THEN s
         ELSE RunFrom(cell, i + 1, Stmt(cell, i, s, k), k) :
         s \in {S} })

\* the session after the cell has run, its exception (if any) in err
RunCell(cell, s, k) == RunFrom(cell, 1, [s EXCEPT !.err = "none"], k)

(***************************************************************************)
(* Data sets and scipy builds                                              *)
(***************************************************************************)
Uniform(n, v) == Tup([i \in 1..n |-> v], n)

\* the data set {(0,1),(1,3),(2,5)}: the exact line y = 2x + 1
ExactLine == [xdat |-> <<0, 1, 2>>, ydat |-> <<1, 3, 5>>,
              xerr |-> <<1, 1, 1>>, yerr |-> <<1, 1, 1>>]

\* the data set {(1,1),(2,2),(3,3),(4,4)} with uniform y uncertainty 1
Diagonal == [xdat |-> <<1, 2, 3, 4>>, ydat |-> <<1, 2, 3, 4>>,
             xerr |-> <<1, 1, 1, 1>>, yerr |-> <<1, 1, 1, 1>>]

\* scattered points, with different x and y uncertainties
Scattered == [xdat |-> <<0, 1, 0>>, ydat |-> <<0, 1, 1>>,
              xerr |-> <<2, 2, 2>>, yerr |-> <<1, 1, 1>>]

\* two points only
TwoPoints == [xdat |-> <<-1, 1>>, ydat |-> <<0, 1>>,
              xerr |-> <<1, 1>>, yerr |-> <<1, 2>>]

\* a zero y uncertainty
ZeroSigma == [xdat |-> <<0, 1, 2>>, ydat |-> <<0, 1, 1>>,
              xerr |-> <<1, 1, 1>>, yerr |-> <<1, 0, 1>>]

\* x uncertainties much larger than the y uncertainties: the orthogonal fit is far
\* from the OLS line it starts from
Steep == [xdat |-> <<0, 1, 0>>, ydat |-> <<0, 3, 2>>,
          xerr |-> <<3, 3, 3>>, yerr |-> <<1, 1, 1>>]

\* every x the same
Vertical == [xdat |-> <<1, 1, 1>>, ydat |-> <<0, 1, 2>>,
             xerr |-> <<1, 1, 1>>, yerr |-> <<1, 1, 1>>]

SessionData == {TwoPoints, ExactLine}

\* three points with x in -1..MaxX (rows ordered by x), y in 0..MaxY, a uniform
\* y uncertainty in 1..MaxSigma and x uncertainty 1; and the data sets above
DrawnData ==
  { [xdat |-> xs, ydat |-> ys, xerr |-> <<1, 1, 1>>, yerr |-> Uniform(3, sg)] :
      xs \in { v \in [1..3 -> (-1)..MaxX] : v[1] <= v[2] /\ v[2] <= v[3] },
      ys \in [1..3 -> 0..MaxY],
      sg \in 1..MaxSigma }
  \cup {ExactLine, Diagonal, Scattered, TwoPoints, ZeroSigma, Steep, Vertical}

AllSameX(file) == \A i \in 1..Len(file.xdat) : file.xdat[i] = file.xdat[1]

HasZeroSigma(file) == \E i \in 1..Len(file.yerr) : file.yerr[i] = 0

\* The builds of scipy.  A build is distinguished only where the data can show it:
\* linregressValidates when every x is the same, leastsqGivesUp when a sigma is 0.
Builds(file) ==
  { b \in [linregressValidates : BOOLEAN, leastsqGivesUp : BOOLEAN] :
      /\ b.linregressValidates => AllSameX(file)
      /\ b.leastsqGivesUp => HasZeroSigma(file) }

(***************************************************************************)
(* The interactive session and Run All                                     *)
(***************************************************************************)
FitNames == {"popt", "perr", "m_fit", "c_fit", "m_err", "c_err"}

ThrIdle ==
  [pc |-> [t \in {"wls", "odr"} |-> 0],
   err |-> [t \in {"wls", "odr"} |-> "none"],
   res |-> [t \in {"wls", "odr"} |-> Nil],
   alone |-> [t \in {"wls", "odr"} |-> Nil],
   mixed |-> [t \in {"wls", "odr"} |-> FALSE],
   writer |-> [n \in FitNames |-> "none"],
   interfered |-> FALSE]

Init ==
  /\ csv \in SessionData
  /\ build \in Builds(csv)
  /\ ns = BlankNs
  /\ defined = {}
  /\ err = "none"
  /\ lastCell = 0
  /\ runAll = FALSE
  /\ queue = <<>>
  /\ fitBy = 0
  /\ prev = Nil
  /\ odrFirst = Nil
  /\ thr = ThrIdle

\* Kernel > Restart & Run All on a drawn data set
InitRunAll ==
  /\ csv \in DrawnData
  /\ build \in Builds(csv)
  /\ ns = BlankNs
  /\ defined = {}
  /\ err = "none"
  /\ lastCell = 0
  /\ runAll = TRUE
  /\ queue = Cells
  /\ fitBy = 0
  /\ prev = Nil
  /\ odrFirst = Nil
  /\ thr = ThrIdle

Estimators == {6, 8, 12, 20}

\* the envelope in the namespace, with the fit it was built from
Envelope(n) ==
  [popt |-> n.popt, perr |-> n.perr, nstd |-> n.nstd,
   popt_upper |-> n.popt_upper, popt_lower |-> n.popt_lower,
   fit_upper |-> n.fit_upper, fit_lower |-> n.fit_lower]

\* Execute one cell.  Under Run All it is the head of the queue, and an exception
\* drops the cells still queued.
ExecCell(cell, k) ==
  /\ runAll => (queue # <<>> /\ Head(queue) = cell)
  /\ \E t \in {RunCell(cell, [ns |-> ns, defined |-> defined, err |-> err], k)} :
        /\ ns' = t.ns
        /\ defined' = t.defined
        /\ err' = t.err
        /\ queue' = IF runAll /\ t.err = "none" THEN Tail(queue) ELSE <<>>
        /\ fitBy' = IF cell \in Estimators /\ t.err = "none" THEN cell ELSE fitBy
        /\ odrFirst' = IF cell = 20 /\ t.err = "none" /\ odrFirst = Nil
                       THEN <<t.ns.popt, t.ns.perr>> ELSE odrFirst
  /\ prev' = IF cell = 16 /\ lastCell = 16 /\ err = "none" THEN Envelope(ns) ELSE Nil
  /\ lastCell' = cell
  /\ UNCHANGED <<csv, build, runAll, thr>>

Cell2 == ExecCell(2, Nil)

Cell4 == ExecCell(4, Nil)

Cell6 == ExecCell(6, Nil)

Cell8 == ExecCell(8, Nil)

Cell10 == ExecCell(10, Nil)

Cell12 == ExecCell(12, Nil)

\* nstd is the literal of the cell's first statement (1.0 in the notebook)
Cell16 == \E k \in 0..MaxNstd : ExecCell(16, Q(k))

Cell20 == ExecCell(20, Nil)

Next == Cell2 \/ Cell4 \/ Cell6 \/ Cell8 \/ Cell10 \/ Cell12 \/ Cell16 \/ Cell20

Spec == Init /\ [][Next]_vars

SpecRunAll == InitRunAll /\ [][Next]_vars

(***************************************************************************)
(* Run All followed by the re-execution of some of the fitting cells       *)
(***************************************************************************)
RerunCells == {8, 12, 20}

\* the cells executed again after Run All: up to MaxRerun of them
Reruns == UNION { [1..n -> RerunCells] : n \in 1..MaxRerun }

RerunData == {ExactLine, Scattered, TwoPoints, Steep}

InitRerun ==
  /\ csv \in RerunData
  /\ build \in Builds(csv)
  /\ ns = BlankNs
  /\ defined = {}
  /\ err = "none"
  /\ lastCell = 0
  /\ runAll = TRUE
  /\ queue \in { Cells \o Tup(r, Len(r)) : r \in Reruns }
  /\ fitBy = 0
  /\ prev = Nil
  /\ odrFirst = Nil
  /\ thr = ThrIdle

SpecRerun == InitRerun /\ [][Next]_vars

(***************************************************************************)
(* Two estimator invocations run concurrently: the statements of cell 12   *)
(* (WLS) and of cell 20 (ODR) interleave on the one global namespace of    *)
(* the kernel, once cells 2, 4, 8 and 10 have run.                         *)
(***************************************************************************)
ConcData == {Scattered, ExactLine, TwoPoints}

CellOf(t) == IF t = "wls" THEN 12 ELSE 20

Other(t) == IF t = "wls" THEN "odr" ELSE "wls"

\* the FitResult an invocation leaves: popt, perr and the four named values
FitResult(n) == <<n.popt, n.perr, n.m_fit, n.c_fit, n.m_err, n.c_err>>

\* the FitResult names a statement assigns
StmtWrites(cell, i) ==
  CASE cell = 12 /\ i = 2 -> {"popt"}
    [] cell = 12 /\ i = 3 -> {"perr"}
    [] cell = 12 /\ i = 4 -> {"m_fit"}
    [] cell = 12 /\ i = 5 -> {"c_fit"}
    [] cell = 12 /\ i = 6 -> {"m_err"}
    [] cell = 12 /\ i = 7 -> {"c_err"}
    [] cell = 20 /\ i = 11 -> {"popt"}
    [] cell = 20 /\ i = 12 -> {"perr"}
    [] cell = 20 /\ i = 13 -> {"m_fit"}
    [] cell = 20 /\ i = 14 -> {"c_fit"}
    [] cell = 20 /\ i = 15 -> {"m_err"}
    [] cell = 20 /\ i = 16 -> {"c_err"}
    [] OTHER -> {}

\* the FitResult names a statement reads
StmtReads(cell, i) ==
  CASE cell = 12 /\ i \in {4, 5} -> {"popt"}
    [] cell = 12 /\ i \in {6, 7} -> {"perr"}
    [] cell = 12 /\ i = 8 -> {"m_fit", "m_err", "c_fit", "c_err"}
    [] cell = 20 /\ i \in {13, 14} -> {"popt"}
    [] cell = 20 /\ i \in {15, 16} -> {"perr"}
    [] cell = 20 /\ i = 17 -> {"m_fit", "m_err", "c_fit", "c_err"}
    [] cell = 20 /\ i = 18 -> {"m_fit", "c_fit"}
    [] OTHER -> {}

\* the invocation has executed a statement and has statements left
Running(t) == thr.pc[t] \in 2..NStmts(CellOf(t))

Finished(t) == thr.pc[t] > NStmts(CellOf(t))

InitConc ==
  /\ csv \in ConcData
  /\ build \in Builds(csv)
  /\ ns = BlankNs
  /\ defined = {}
  /\ err = "none"
  /\ lastCell = 0
  /\ runAll = TRUE
  /\ queue = <<2, 4, 8, 10>>
  /\ fitBy = 0
  /\ prev = Nil
  /\ odrFirst = Nil
  /\ thr = ThrIdle

\* The two invocations start.  alone records, for reference, the FitResult each
\* of them leaves when it runs from this session with nothing else running.
Start ==
  /\ runAll /\ queue = <<>> /\ lastCell = 10 /\ err = "none"
  /\ thr.pc["wls"] = 0
  /\ \E s0 \in {[ns |-> ns, defined |-> defined, err |-> "none"]} :
       \E aw \in {FitResult(RunCell(12, s0, Nil).ns)}, ao \in {FitResult(RunCell(20, s0, Nil).ns)} :
          thr' = [thr EXCEPT
                    !.pc = [t \in {"wls", "odr"} |-> 1],
                    !.alone = [t \in {"wls", "odr"} |-> IF t = "wls" THEN aw ELSE ao]]
  /\ UNCHANGED <<csv, build, ns, defined, err, lastCell, runAll, queue, fitBy, prev, odrFirst>>

\* invocation t executes its next statement
Step(t) ==
  /\ thr.pc[t] \in 1..NStmts(CellOf(t))
  /\ \E cell \in {CellOf(t)}, i \in {thr.pc[t]} :
       \E s1 \in {Stmt(cell, i, [ns |-> ns, defined |-> defined, err |-> "none"], Nil)} :
         \E last \in {s1.err # "none" \/ i = NStmts(cell)} :
           /\ ns' = s1.ns
           /\ defined' = s1.defined
           /\ thr' = [thr EXCEPT
                        !.pc[t] = IF last THEN NStmts(cell) + 1 ELSE i + 1,
                        !.err[t] = s1.err,
                        !.res[t] = IF last /\ s1.err = "none" THEN FitResult(s1.ns) ELSE @,
                        !.mixed[Other(t)] = @ \/ Running(Other(t)),
                        !.writer = [n \in FitNames |->
                                      IF n \in StmtWrites(cell, i) THEN t ELSE @[n]],
                        !.interfered = @ \/ \E n \in StmtReads(cell, i) \cup StmtWrites(cell, i) :
                                               thr.writer[n] = Other(t)]
  /\ UNCHANGED <<csv, build, err, lastCell, runAll, queue, fitBy, prev, odrFirst>>

StepWLS == Step("wls")

StepODR == Step("odr")

NextConc == Cell2 \/ Cell4 \/ Cell8 \/ Cell10 \/ Start \/ StepWLS \/ StepODR

SpecConc == InitConc /\ [][NextConc]_vars

(***************************************************************************)
(* Properties                                                              *)
(***************************************************************************)
\* the cell executed last ran to its end
Ran(cell) == lastCell = cell /\ err = "none"

Threads == {"wls", "odr"}

UniformYerr(file) == \A i \in 1..Len(file.yerr) : file.yerr[i] = file.yerr[1] /\ file.yerr[1] > 0

UniformXerr(file) == \A i \in 1..Len(file.xerr) : file.xerr[i] = file.xerr[1] /\ file.xerr[1] > 0

\* every point of the file lies on one line
Collinear(file) ==
  \A i, j, k \in 1..Len(file.xdat) :
    (file.xdat[j] - file.xdat[i]) * (file.ydat[k] - file.ydat[i])
      = (file.xdat[k] - file.xdat[i]) * (file.ydat[j] - file.ydat[i])

\* (m, c) is the line through every two points of the file with different x
IsLineOf(file, mc) ==
  \A i, j \in 1..Len(file.xdat) :
    file.xdat[i] # file.xdat[j] =>
      \E slope \in {Norm(file.ydat[j] - file.ydat[i], file.xdat[j] - file.xdat[i])} :
        /\ mc[1] = slope
        /\ mc[2] = QSub(Q(file.ydat[i]), QMul(slope, Q(file.xdat[i])))

NearZero(v) == QLe(QAbs(v), Norm(1, 100))

C2_ZeroSigmaRejected ==
  (lastCell = 12 /\ HasZeroSigma(csv) /\ {"curve_fit", "x", "y", "yerror"} \subseteq defined)
    => err # "none"

C4_IdenticalXRejected ==
  (lastCell = 6 /\ AllSameX(csv) /\ {"x", "y"} \subseteq defined)
    => (err # "none" /\ "m" \notin defined /\ "c" \notin defined)

\* C5 (as claimed): for {(1,1),(2,2),(3,3),(4,4)} with y uncertainty 1 the weighted
\* fit of cell 12 gives m = 1, c = 0, a covariance matrix of (near) zero entries and
\* (near) zero m_err and c_err.
C5_NearZeroCovariance ==
  (Ran(12) /\ csv = Diagonal) =>
    /\ ns.popt = <<One, Zero>>
    /\ \A i, j \in 1..2 : NearZero(ns.pcov[i][j])
    /\ NearZero(ns.m_err) /\ NearZero(ns.c_err)

\* C5 (amended): for that data set the weighted fit of cell 12 gives m = 1, c = 0 and,
\* the uncertainties being absolute, the covariance matrix inv(J^T J) =
\* ((1/5, -1/2), (-1/2, 3/2)), whatever the residuals: m_err = sqrt(1/5) and
\* c_err = sqrt(3/2), which are not near zero.
C5_AbsoluteSigmaCovariance ==
  (Ran(12) /\ csv = Diagonal) =>
    /\ ns.popt = <<One, Zero>>
    /\ ns.pcov = <<<<Norm(1, 5), Norm(-1, 2)>>, <<Norm(-1, 2), Norm(3, 2)>>>>
    /\ ns.m_err = QSqrt(Norm(1, 5)) /\ QLt(Norm(1, 4), ns.m_err)
    /\ ns.c_err = QSqrt(Norm(3, 2)) /\ QLt(One, ns.c_err)

C5_Witness ==
  /\ Ran(12) /\ csv = Diagonal
  /\ ns.m_fit = One /\ ns.c_fit = Zero
  /\ ns.pcov[1][1] = Norm(1, 5)

C7_UniformSigmaIsOLS ==
  (Ran(12) /\ UniformYerr(csv) /\ ~AllSameX(csv)) =>
    /\ ns.popt = <<ns.m, ns.c>>
    /\ <<ns.m_fit, ns.c_fit>> = <<ns.m, ns.c>>

C7_Witness ==
  /\ Ran(12) /\ csv.yerr = <<2, 2, 2>>
  /\ ~Collinear(csv) /\ ~AllSameX(csv)
  /\ ns.popt = <<ns.m, ns.c>>
  /\ ns.m # Zero

\* C8: when the estimator that ran last is OLS (cell 6), or none has run, the
\* envelope cell ends in an error: it builds no envelope from the popt and perr an
\* earlier estimator left.
C8_EnvelopeNeedsCovariance ==
  (lastCell = 16 /\ fitBy \in {0, 6}) => err # "none"

\* C9: after cell 16, popt_upper = popt + nstd*perr and popt_lower = popt - nstd*perr
\* for both parameters, and fit_upper and fit_lower are the line of those
\* parameters at every x.
C9_EnvelopeParameters ==
  Ran(16) =>
    /\ \A j \in 1..2 :
         /\ ns.popt_upper[j] = QAdd(ns.popt[j], QMul(ns.nstd, ns.perr[j]))
         /\ ns.popt_lower[j] = QSub(ns.popt[j], QMul(ns.nstd, ns.perr[j]))
    /\ Len(ns.fit_upper) = Len(ns.x) /\ Len(ns.fit_lower) = Len(ns.x)
    /\ \A i \in 1..Len(ns.x) :
         /\ ns.fit_upper[i] = QAdd(QMul(ns.popt_upper[1], ns.x[i]), ns.popt_upper[2])
         /\ ns.fit_lower[i] = QAdd(QMul(ns.popt_lower[1], ns.x[i]), ns.popt_lower[2])

C9_Witness ==
  /\ Ran(16) /\ ns.nstd = Q(2)
  /\ IsFinite(ns.perr[1]) /\ QLt(Zero, ns.perr[1])
  /\ QLt(ns.popt_lower[1], ns.popt[1]) /\ QLt(ns.popt[1], ns.popt_upper[1])
  /\ ns.fit_upper # ns.fit_lower

\* the width of the envelope for parameter j, and the distance of its lines at x[i]
Width(e, j) == QSub(e.popt_upper[j], e.popt_lower[j])

Gap(e, i) == QAbs(QSub(e.fit_upper[i], e.fit_lower[i]))

\* the envelope just built is at least as wide as the one it replaced
Wider ==
  /\ prev.popt = ns.popt /\ prev.perr = ns.perr
  /\ \A j \in 1..2 : QLe(Width(prev, j), Width(Envelope(ns), j))
  /\ \A i \in 1..Len(ns.x) : QLe(Gap(prev, i), Gap(Envelope(ns), i))

FiniteErrors == \A j \in 1..2 : IsFinite(ns.perr[j]) /\ QLe(Zero, ns.perr[j])

\* at x[i] the fitted line is not below fit_lower and not above fit_upper
Bracketed(i) == QLe(ns.fit_lower[i], ns.y_fit[i]) /\ QLe(ns.y_fit[i], ns.fit_upper[i])

\* at x[i] the fitted line is not below fit_upper and not above fit_lower
Flipped(i) == QLe(ns.fit_upper[i], ns.y_fit[i]) /\ QLe(ns.y_fit[i], ns.fit_lower[i])

\* C12 (as claimed): after cell 16, for a fit with finite non-negative standard
\* errors and any nstd >= 0, fit_lower <= y_fit <= fit_upper at every x of the data
\* set, of either sign.
C12_EnvelopeBrackets ==
  (Ran(16) /\ FiniteErrors) => \A i \in 1..Len(ns.x) : Bracketed(i)

\* C12 (amended): after cell 16, for a fit with finite non-negative standard errors,
\* y_fit is midway between fit_lower and fit_upper at every x, so it lies between
\* the two lines and in the area filled between them; fit_lower <= y_fit <= fit_upper
\* holds exactly where nstd*(m_err*x + c_err) >= 0, hence at every x >= 0, and the
\* order of the two lines is the opposite where it is negative.
C12_EnvelopeContainsFit ==
  (Ran(16) /\ FiniteErrors) =>
    \A i \in 1..Len(ns.x) :
      /\ QAdd(ns.fit_upper[i], ns.fit_lower[i]) = QAdd(ns.y_fit[i], ns.y_fit[i])
      /\ Bracketed(i) \/ Flipped(i)
      /\ QLe(Zero, ns.x[i]) => Bracketed(i)
      /\ Bracketed(i) <=>
           QLe(Zero, QMul(ns.nstd, QAdd(QMul(ns.perr[1], ns.x[i]), ns.perr[2])))

C12_Witness ==
  /\ Ran(16) /\ FiniteErrors /\ QLt(Zero, ns.nstd)
  /\ \E i \in 1..Len(ns.x) :
       /\ QLt(ns.x[i], Zero)
       /\ QLt(ns.fit_upper[i], ns.y_fit[i]) /\ QLt(ns.y_fit[i], ns.fit_lower[i])
  /\ \E i \in 1..Len(ns.x) :
       QLt(ns.fit_lower[i], ns.y_fit[i]) /\ QLt(ns.y_fit[i], ns.fit_upper[i])

====
